---- MODULE Spec2Model ----
(***************************************************************************)
(* ClawShell: the approval ledger (class PendingApprovals) and the         *)
(* orchestrator (clawshell_bash) that gates a shell command behind a risk  *)
(* verdict, a push notification and a human decision.                      *)
(*                                                                         *)
(* JavaScript runs one callback at a time, so every action below is one    *)
(* run-to-completion step: a synchronous API call, a timer callback, or    *)
(* the code between two awaits of clawshell_bash.                          *)
(***************************************************************************)
EXTENDS Integers, Sequences, FiniteSets, TLC

\* ------------------------------------------------------------------ bounds
\* Number of entry objects add() may create in one run.
MaxReq == 2
\* Number of clawshell_bash calls in one run.
MaxCalls == 1
\* Last value of the clock (Date.now(), in ticks).
MaxTime == 3

\* #timeoutMs in clock ticks (the configured timeout is the unit of time).
TimeoutTicks == 1

\* Request ids: caller-supplied to add(), or randomUUID().slice(0, 8).
Ids == {"a", "b"}
Reqs == 1..MaxReq
Calls == 1..MaxCalls
Levels == {"low", "medium", "high", "critical"}
Channels == {"pushover", "telegram", "mock"}

VARIABLES
    store,      \* #store: id -> the entry object stored under it (0: none)
    nreq,       \* number of entry objects created so far
    entries,    \* the entry objects: id, timestamp, status, timer
    promise,    \* per entry: the values handed to its resolver, in order
    sweep,      \* #cleanupInterval is still scheduled
    now,        \* Date.now()
    ret,        \* <<what the approve/reject call of the last step returned>>
    channel,    \* the notifier getNotifier() built
    calls,      \* the clawshell_bash invocations
    rules,      \* #config.rules of the RiskAnalyzer
    analysis,   \* <<the last analyzeCommand call: its arguments and verdict>>
    poller      \* one pollForResponse call of the notifier

ledger == <<store, nreq, entries, promise, sweep>>
analyzer == <<rules, analysis>>
vars ==
    <<store, nreq, entries, promise, sweep, now, ret, channel, calls, rules, analysis,
      poller>>

\* ---------------------------------------------------------------- outcomes
ApprovedOutcome == [approved |-> TRUE, decidedBy |-> "user"]

\* Mutant: reject() settles with a reason, in the shape of the timeout.
RejectedOutcome_WithReason ==
    [approved |-> FALSE, reason |-> "rejected", decidedBy |-> "user"]

RejectedOutcome == [approved |-> FALSE, decidedBy |-> "user"]

\* Mutant: the timer settles with the bare rejection shape.
TimeoutOutcome_NoReason == [approved |-> FALSE, decidedBy |-> "timeout"]

TimeoutOutcome == [approved |-> FALSE, reason |-> "timeout", decidedBy |-> "timeout"]

Terminal == {"approved", "rejected", "timeout"}

\* An entry slot add() has not filled yet.
NoEntry ==
    [id |-> "", command |-> "", workingDir |-> "", riskLevel |-> "",
     riskReasons |-> << >>, timestamp |-> 0, status |-> "none",
     resolver |-> 0, timer |-> "none"]

\* What get() returns for an id the map does not hold.
Null == [null |-> TRUE]

\* The value of `ret` after a step that made no approve/reject call.
NoCall == << >>

\* A promise is settled by the first value its resolver receives; later
\* calls of the resolver are ignored by the runtime.
Settled(r) == promise[r] # << >>

Outcome(r) == Head(promise[r])

\* The ids of all entry objects created so far.
UsedIds == {entries[r].id : r \in 1..nreq}

\* randomUUID().slice(0, 8): an id no entry has had. Ids are opaque and
\* interchangeable, so the first unused one stands for the random choice.
IdOrder == <<"a", "b">>

FreshId ==
    LET k == CHOOSE k \in 1..Len(IdOrder) :
                /\ IdOrder[k] \notin UsedIds
                /\ \A j \in 1..(k - 1) : IdOrder[j] \in UsedIds
    IN  IdOrder[k]

\* ------------------------------------------------------------------ ledger
\* Mutant: the guard forgets the status check.
CanDecide_NoStatusCheck(i) == store[i] # 0

\* approve/reject: `if (!entry || entry.status !== 'pending') return false`
CanDecide(i) == store[i] # 0 /\ entries[store[i]].status = "pending"

\* timer callback: `this.#store.has(id) && this.#store.get(id).status === 'pending'`
TimerGuard(r) == CanDecide(entries[r].id)

\* Mutant: the sweep looks at the age only.
Expired_AnyStatus(r) == now - entries[r].timestamp > TimeoutTicks * 2

\* Mutant: the sweep evicts after one timeout instead of two.
Expired_OneTimeout(r) ==
    /\ entries[r].status # "pending"
    /\ now - entries[r].timestamp > TimeoutTicks

\* cleanup(): `entry.status !== 'pending' && (now - timestamp) > timeoutMs * 2`
Expired(r) ==
    /\ entries[r].status # "pending"
    /\ now - entries[r].timestamp > TimeoutTicks * 2

\* add(request): a new entry object under id i, with a new armed timer.
LedgerAdd(i) ==
    LET r == nreq + 1 IN
    /\ nreq' = r
    /\ entries' = [entries EXCEPT ![r] =
          [id |-> i, command |-> "cmd", workingDir |-> "dir", riskLevel |-> "high",
           riskReasons |-> <<"why">>, timestamp |-> now, status |-> "pending",
           resolver |-> r, timer |-> "armed"]]
    /\ store' = [store EXCEPT ![i] = r]
    /\ UNCHANGED <<promise, sweep>>

\* Mutant: the early return reports success.
LedgerDecide_AlwaysTrue(i, st, out) ==
    IF CanDecide(i)
    THEN /\ entries' = [entries EXCEPT ![store[i]].status = st,
                                       ![store[i]].timer = "cleared"]
         /\ promise' = [promise EXCEPT ![store[i]] = Append(@, out)]
         /\ ret' = <<TRUE>>
         /\ UNCHANGED <<store, nreq, sweep>>
    ELSE /\ ret' = <<TRUE>>
         /\ UNCHANGED ledger

\* Mutant: the decision goes to the oldest pending request, whatever its id.
LedgerDecide_OldestPending(i, st, out) ==
    LET waiting == {r \in 1..nreq : entries[r].status = "pending"} IN
    IF CanDecide(i)
    THEN LET r == CHOOSE q \in waiting : \A p \in waiting : q <= p IN
         /\ entries' = [entries EXCEPT ![r].status = st, ![r].timer = "cleared"]
         /\ promise' = [promise EXCEPT ![r] = Append(@, out)]
         /\ ret' = <<TRUE>>
         /\ UNCHANGED <<store, nreq, sweep>>
    ELSE /\ ret' = <<FALSE>>
         /\ UNCHANGED ledger

\* Mutant: the status is written and the timer cleared, the resolver not called.
LedgerDecide_NoResolve(i, st, out) ==
    IF CanDecide(i)
    THEN /\ entries' = [entries EXCEPT ![store[i]].status = st,
                                       ![store[i]].timer = "cleared"]
         /\ ret' = <<TRUE>>
         /\ UNCHANGED <<store, nreq, promise, sweep>>
    ELSE /\ ret' = <<FALSE>>
         /\ UNCHANGED ledger

\* approve(id) / reject(id): the shared body, with the status and outcome.
LedgerDecide(i, st, out) ==
    IF CanDecide(i)
    THEN /\ entries' = [entries EXCEPT ![store[i]].status = st,
                                       ![store[i]].timer = "cleared"]
         /\ promise' = [promise EXCEPT ![store[i]] = Append(@, out)]
         /\ ret' = <<TRUE>>
         /\ UNCHANGED <<store, nreq, sweep>>
    ELSE /\ ret' = <<FALSE>>
         /\ UNCHANGED ledger

LedgerApprove(i) == LedgerDecide(i, "approved", ApprovedOutcome)

\* Mutant: reject() goes down the timeout path.
LedgerReject_AsTimeout(i) == LedgerDecide(i, "timeout", TimeoutOutcome)

LedgerReject(i) == LedgerDecide(i, "rejected", RejectedOutcome)

RECURSIVE ListFrom_NoFilter(_)
RECURSIVE ListFrom(_)

\* Mutant: the projection drops the resolver but keeps the timer handle.
Snapshot_KeepsTimer(e) == [f \in DOMAIN e \ {"resolver"} |-> e[f]]

\* `const { resolver, timer, ...rest } = entry`: a copy of every other field.
Snapshot(e) == [f \in DOMAIN e \ {"resolver", "timer"} |-> e[f]]

\* get(id)
Get(i) == IF store[i] = 0 THEN Null ELSE Snapshot(entries[store[i]])

\* Mutant: list() forgets the status filter.
ListFrom_NoFilter(k) ==
    IF k > Len(IdOrder) THEN << >>
    ELSE LET i == IdOrder[k] IN
         IF store[i] # 0
         THEN <<Snapshot(entries[store[i]])>> \o ListFrom_NoFilter(k + 1)
         ELSE ListFrom_NoFilter(k + 1)

\* list(): the loop over the map, from its k-th key on. The map's iteration
\* order (insertion order) is not kept in the model; IdOrder stands for it.
ListFrom(k) ==
    IF k > Len(IdOrder) THEN << >>
    ELSE LET i == IdOrder[k] IN
         IF store[i] # 0 /\ entries[store[i]].status = "pending"
         THEN <<Snapshot(entries[store[i]])>> \o ListFrom(k + 1)
         ELSE ListFrom(k + 1)

List == ListFrom(1)

\* ----------------------------------------------------------- ledger actions
Add(i) ==
    /\ nreq < MaxReq
    /\ now + TimeoutTicks <= MaxTime
    /\ LedgerAdd(i)
    /\ ret' = NoCall
    /\ UNCHANGED <<now, channel, analyzer, poller, calls>>

Approve(i) ==
    /\ LedgerApprove(i)
    /\ UNCHANGED <<now, channel, analyzer, poller, calls>>

Reject(i) ==
    /\ LedgerReject(i)
    /\ UNCHANGED <<now, channel, analyzer, poller, calls>>

\* The setTimeout callback of entry r, created in add().
TimerFire(r) ==
    /\ r <= nreq
    /\ entries[r].timer = "armed"
    /\ now >= entries[r].timestamp + TimeoutTicks
    /\ IF TimerGuard(r)
       THEN /\ entries' = [entries EXCEPT
                  ![r].timer = "fired",
                  ![store[entries[r].id]].status = "timeout"]
            /\ promise' = [promise EXCEPT ![r] = Append(@, TimeoutOutcome)]
       ELSE /\ entries' = [entries EXCEPT ![r].timer = "fired"]
            /\ UNCHANGED promise
    /\ ret' = NoCall
    /\ UNCHANGED <<store, nreq, sweep, now, channel, analyzer, poller, calls>>

\* Mutant: a call evicts the first expired entry it meets and stops.
Cleanup_OneAtATime(byInterval) ==
    /\ byInterval => sweep
    /\ LET expired == {k \in 1..Len(IdOrder) :
                          store[IdOrder[k]] # 0 /\ Expired(store[IdOrder[k]])}
       IN  store' = [i \in Ids |->
              IF /\ expired # {}
                 /\ i = IdOrder[CHOOSE k \in expired : \A j \in expired : k <= j]
              THEN 0 ELSE store[i]]
    /\ ret' = NoCall
    /\ UNCHANGED <<nreq, entries, promise, sweep, now, channel, analyzer, poller, calls>>

\* cleanup(): called by the caller (byInterval = FALSE) or by the interval.
Cleanup(byInterval) ==
    /\ byInterval => sweep
    /\ store' = [i \in Ids |->
          IF store[i] # 0 /\ Expired(store[i]) THEN 0 ELSE store[i]]
    /\ ret' = NoCall
    /\ UNCHANGED <<nreq, entries, promise, sweep, now, channel, analyzer, poller, calls>>

\* destroy(): clears the interval, the timers of the stored entries, the map.
Destroy ==
    /\ sweep' = FALSE
    /\ entries' = [r \in Reqs |->
          IF r <= nreq /\ store[entries[r].id] = r /\ entries[r].timer = "armed"
          THEN [entries[r] EXCEPT !.timer = "cleared"]
          ELSE entries[r]]
    /\ store' = [i \in Ids |-> 0]
    /\ ret' = NoCall
    /\ UNCHANGED <<nreq, promise, now, channel, analyzer, poller, calls>>

\* Time passes. The clock starts with the first add(): before it no timer
\* and no timestamp exists that a tick could be measured against.
Tick ==
    /\ now < MaxTime
    /\ nreq > 0
    /\ now' = now + 1
    /\ ret' = NoCall
    /\ UNCHANGED <<ledger, channel, analyzer, poller, calls>>

\* ------------------------------------------------------------ orchestrator
\* An invocation of clawshell_bash that has not started.
NoHandle ==
    [pc |-> "idle", level |-> "", id |-> "", req |-> 0, notif |-> "none",
     receipt |-> FALSE, poll |-> "none", remote |-> "none",
     decision |-> << >>, result |-> << >>, execs |-> 0, audit |-> << >>]

\* The entries logger.log / logger.warn append for one invocation.
Audit(kind, decision, by, level) ==
    [kind |-> kind, decision |-> decision, decided_by |-> by, risk_level |-> level]

BlockedResult == [exitCode |-> 1, stdout |-> "", stderr |-> <<"BLOCKED">>]

\* `decision.reason || 'rejected by user'`
DecisionReason(d) ==
    IF "reason" \in DOMAIN d /\ d.reason # "" THEN d.reason ELSE "rejected by user"

RejectedResult(d) ==
    [exitCode |-> 1, stdout |-> "", stderr |-> <<"REJECTED", DecisionReason(d)>>]

\* Mutant: the rejection return is missing, every decision falls through.
MayExecute_Always(d) == TRUE

\* `if (!decision.approved) return {...}`: only an approved decision executes.
MayExecute(d) == d.approved

\* `if (notification.receipt)`: polling starts only with a receipt.
StartsPoll(rcpt) == rcpt

\* Which notifiers can answer a send with a receipt: PushoverNotifier returns
\* `response.data.receipt || null`; Telegram and Mock always return null.
MayHaveReceipt(ch) == ch = "pushover"

\* What the remote side can record for a delivered notification.
RemoteAnswers(ch) ==
    CASE ch = "pushover" -> {"approved", "expired"}
      [] ch = "telegram" -> {"approved", "rejected"}
      [] OTHER -> {}

\* PushoverNotifier.pollForResponse: what one polling round returns, if anything.
PollResult(remote) ==
    CASE remote = "approved" -> [approved |-> TRUE, decidedBy |-> "user_pushover"]
      [] OTHER -> [approved |-> FALSE, decidedBy |-> "timeout"]

\* Mutant: the poll's callback writes the stored entry itself, whatever its status.
ForwardPoll_Unguarded(result, i) ==
    IF store[i] # 0
    THEN /\ entries' = [entries EXCEPT
               ![store[i]].status = IF result.approved THEN "approved" ELSE "rejected",
               ![store[i]].timer = "cleared"]
         /\ promise' = [promise EXCEPT ![store[i]] =
               Append(@, IF result.approved THEN ApprovedOutcome ELSE RejectedOutcome)]
         /\ ret' = <<TRUE>>
         /\ UNCHANGED <<store, nreq, sweep>>
    ELSE /\ ret' = <<FALSE>>
         /\ UNCHANGED ledger

\* Mutant: a non-approved poll result is settled as the channel reported it.
ForwardPoll_AsReported(result, i) ==
    IF result.approved THEN LedgerApprove(i) ELSE LedgerDecide(i, "timeout", result)

\* `.then((result) => result.approved ? pending.approve(id) : pending.reject(id))`
ForwardPoll(result, i) ==
    IF result.approved THEN LedgerApprove(i) ELSE LedgerReject(i)

\* Mutant: the critical branch logs but does not return, and the command runs.
Blocked_FallsThrough(c) ==
    [c EXCEPT !.pc = "executing", !.level = "critical", !.execs = @ + 1,
              !.audit = Append(@, Audit("decision", "auto-blocked", "auto", "critical"))]

\* The critical branch: log the auto-block and return the synthetic failure.
Blocked(c) ==
    [c EXCEPT !.pc = "done", !.level = "critical",
              !.audit = Append(@, Audit("decision", "auto-blocked", "auto", "critical")),
              !.result = <<BlockedResult>>]

\* Mutant: the medium branch runs the command without logging it.
Start_MediumUnlogged(h, lvl) ==
    /\ calls[h].pc = "idle"
    /\ IF h = 1 THEN TRUE ELSE calls[h - 1].pc # "idle"
    /\ CASE lvl = "critical" ->
            /\ calls' = [calls EXCEPT ![h] = Blocked(@)]
            /\ ret' = NoCall
            /\ UNCHANGED ledger
         [] lvl = "high" ->
            /\ nreq < MaxReq
            /\ now + TimeoutTicks <= MaxTime
            /\ Ids \ UsedIds # {}
            /\ LedgerAdd(FreshId)
            /\ ret' = NoCall
            /\ calls' = [calls EXCEPT ![h] = [@ EXCEPT
                  !.pc = "sending", !.level = lvl, !.id = FreshId,
                  !.req = nreq + 1, !.notif = "inflight"]]
         [] lvl = "medium" ->
            /\ calls' = [calls EXCEPT ![h] = [@ EXCEPT
                  !.pc = "executing", !.level = lvl, !.execs = @ + 1]]
            /\ ret' = NoCall
            /\ UNCHANGED ledger
         [] OTHER ->
            /\ calls' = [calls EXCEPT ![h] = [@ EXCEPT
                  !.pc = "executing", !.level = lvl, !.execs = @ + 1]]
            /\ ret' = NoCall
            /\ UNCHANGED ledger
    /\ UNCHANGED <<now, channel, analyzer, poller>>

\* clawshell_bash up to its first await (or to its return).
Start(h, lvl) ==
    /\ calls[h].pc = "idle"
    /\ IF h = 1 THEN TRUE ELSE calls[h - 1].pc # "idle"
    /\ CASE lvl = "critical" ->
            /\ calls' = [calls EXCEPT ![h] = Blocked(@)]
            /\ ret' = NoCall
            /\ UNCHANGED ledger
         [] lvl = "high" ->
            /\ nreq < MaxReq
            /\ now + TimeoutTicks <= MaxTime
            /\ Ids \ UsedIds # {}
            /\ LedgerAdd(FreshId)
            /\ ret' = NoCall
            /\ calls' = [calls EXCEPT ![h] = [@ EXCEPT
                  !.pc = "sending", !.level = lvl, !.id = FreshId,
                  !.req = nreq + 1, !.notif = "inflight"]]
         [] lvl = "medium" ->
            /\ calls' = [calls EXCEPT ![h] = [@ EXCEPT
                  !.pc = "executing", !.level = lvl, !.execs = @ + 1,
                  !.audit = Append(@, Audit("decision", "auto-allowed", "auto", lvl))]]
            /\ ret' = NoCall
            /\ UNCHANGED ledger
         [] OTHER ->
            /\ calls' = [calls EXCEPT ![h] = [@ EXCEPT
                  !.pc = "executing", !.level = lvl, !.execs = @ + 1]]
            /\ ret' = NoCall
            /\ UNCHANGED ledger
    /\ UNCHANGED <<now, channel, analyzer, poller>>

\* sendApprovalRequest resolved: the notification is delivered.
SendOk(h, rcpt) ==
    /\ calls[h].pc = "sending"
    /\ rcpt => MayHaveReceipt(channel)
    /\ calls' = [calls EXCEPT ![h] = [@ EXCEPT
          !.pc = "waiting", !.notif = "delivered", !.receipt = rcpt,
          !.poll = IF StartsPoll(rcpt) THEN "running" ELSE "none"]]
    /\ ret' = NoCall
    /\ UNCHANGED <<ledger, now, channel, analyzer, poller>>

\* Mutant: no catch around the send, the error ends the call.
SendFailed_Throws(c) ==
    [c EXCEPT !.pc = "done", !.notif = "failed",
              !.result = <<[exitCode |-> 1, stdout |-> "", stderr |-> <<"threw">>]>>]

\* What the catch around the send does: log a warning and go on to the await.
SendFailed(c) ==
    [c EXCEPT !.pc = "waiting", !.notif = "failed",
              !.audit = Append(@, Audit("warn", "", "", ""))]

\* sendApprovalRequest rejected (`throw new Error('... send failed')`).
SendFail(h) ==
    /\ calls[h].pc = "sending"
    /\ channel # "mock"
    /\ calls' = [calls EXCEPT ![h] = SendFailed(@)]
    /\ ret' = NoCall
    /\ UNCHANGED <<ledger, now, channel, analyzer, poller>>

\* The human (or the remote service's expiry) answers a delivered notification.
RemoteAnswer(h, ans) ==
    /\ calls[h].notif = "delivered"
    /\ calls[h].remote = "none"
    /\ calls[h].pc = "waiting" \/ calls[h].poll = "running"
    /\ ans \in RemoteAnswers(channel)
    /\ calls' = [calls EXCEPT ![h].remote = ans]
    /\ ret' = NoCall
    /\ UNCHANGED <<ledger, now, channel, analyzer, poller>>

\* The background poll sees the remote answer and forwards it to the ledger.
PollReturn(h) ==
    /\ calls[h].poll = "running"
    /\ calls[h].remote # "none"
    /\ ForwardPoll(PollResult(calls[h].remote), calls[h].id)
    /\ calls' = [calls EXCEPT ![h].poll = "done"]
    /\ UNCHANGED <<now, channel, analyzer, poller>>

\* The background poll reaches its own deadline before seeing an answer.
PollDeadline(h) ==
    /\ calls[h].poll = "running"
    /\ ForwardPoll(PollResult("none"), calls[h].id)
    /\ calls' = [calls EXCEPT ![h].poll = "done"]
    /\ UNCHANGED <<now, channel, analyzer, poller>>

\* clawshell_bash after `await promise`.
Decided(c, d) ==
    LET logged == [c EXCEPT
            !.decision = <<d>>,
            !.audit = Append(@, Audit("decision",
                IF d.approved THEN "approved" ELSE "rejected", d.decidedBy, "high"))]
    IN  IF MayExecute(d)
        THEN [logged EXCEPT !.pc = "executing", !.execs = @ + 1]
        ELSE [logged EXCEPT !.pc = "done", !.result = <<RejectedResult(d)>>]

AwaitDecision(h) ==
    /\ calls[h].pc = "waiting"
    /\ Settled(calls[h].req)
    /\ calls' = [calls EXCEPT ![h] = Decided(@, Outcome(calls[h].req))]
    /\ ret' = NoCall
    /\ UNCHANGED <<ledger, now, channel, analyzer, poller>>

\* The executor's callback: executeCommand resolves with its result.
ExecDone(h, code) ==
    /\ calls[h].pc = "executing"
    /\ calls' = [calls EXCEPT ![h] = [@ EXCEPT
          !.pc = "done",
          !.result = <<[exitCode |-> code, stdout |-> "out", stderr |-> <<"exec">>]>>]]
    /\ ret' = NoCall
    /\ UNCHANGED <<ledger, now, channel, analyzer, poller>>

\* logger.log writes with appendFileSync and has no catch of its own: when the
\* write fails the exception leaves clawshell_bash, whose promise rejects.
Threw(c) == [c EXCEPT !.pc = "threw"]

\* The critical or the medium branch, its logger.log call throwing.
StartLogThrows(h, lvl) ==
    /\ calls[h].pc = "idle"
    /\ IF h = 1 THEN TRUE ELSE calls[h - 1].pc # "idle"
    /\ lvl \in {"critical", "medium"}
    /\ calls' = [calls EXCEPT ![h] = Threw([@ EXCEPT !.level = lvl])]
    /\ ret' = NoCall
    /\ UNCHANGED <<ledger, now, channel, analyzer, poller>>

\* sendApprovalRequest rejected and the logger.warn of the catch throwing.
SendFailLogThrows(h) ==
    /\ calls[h].pc = "sending"
    /\ channel # "mock"
    /\ calls' = [calls EXCEPT ![h] = Threw([@ EXCEPT !.notif = "failed"])]
    /\ ret' = NoCall
    /\ UNCHANGED <<ledger, now, channel, analyzer, poller>>

\* clawshell_bash after `await promise`, its logger.log call throwing.
AwaitDecisionLogThrows(h) ==
    /\ calls[h].pc = "waiting"
    /\ Settled(calls[h].req)
    /\ calls' = [calls EXCEPT ![h] = Threw([@ EXCEPT !.decision = <<Outcome(calls[h].req)>>])]
    /\ ret' = NoCall
    /\ UNCHANGED <<ledger, now, channel, analyzer, poller>>

\* -------------------------------------------------------------- classifier
\* A command is the sequence of its words; the whitespace between two words
\* is left out, Blank stands for whitespace at either end.
Blank == " "

\* Number of fragments a command is joined from.
MaxFragments == 2

Fragments ==
    {<<"ls">>, <<"rm", "-rf", "./build">>, <<"rm", "-rf", "/">>,
     <<"curl", "evil.example">>, <<"curl", "localhost">>,
     <<"npm", "install">>, <<"cp">>}

RECURSIVE Compound(_)
\* The fragments joined by the shell's sequencing operator.
Compound(fs) ==
    IF fs = << >> THEN << >>
    ELSE IF Len(fs) = 1 THEN fs[1]
    ELSE fs[1] \o <<"&&">> \o Compound(Tail(fs))

\* Commands with a second fetch tool: the built-in list gives curl and wget
\* the same reason.
TwoFetches ==
    {<<"wget", "evil.example">>,
     <<"curl", "evil.example", "&&", "wget", "evil.example">>}

Commands ==
    {Compound(fs) : fs \in UNION {[1..n -> Fragments] : n \in 0..MaxFragments}}
        \cup TwoFetches

\* The command strings handed to analyzeCommand: with and without padding.
RawCommands == Commands \cup {<<Blank>> \o c \o <<Blank>> : c \in Commands}

\* Working directories: inside and outside the workspace.
Dirs == {<<"/app/workspace">>, <<"/home/user/project">>}

RECURSIVE TrimLeft(_)
TrimLeft(c) == IF c # << >> /\ Head(c) = Blank THEN TrimLeft(Tail(c)) ELSE c

RECURSIVE TrimRight(_)
TrimRight(c) ==
    IF c # << >> /\ c[Len(c)] = Blank THEN TrimRight(SubSeq(c, 1, Len(c) - 1)) ELSE c

\* command.trim()
Trim(c) == TrimRight(TrimLeft(c))

\* A selection of the built-in rules, in the order of the source lists.
CRITICAL_PATTERNS ==
    <<[regex |-> "rm -rf /$", reason |-> "destructive_root_delete", checkLocalhost |-> FALSE]>>

HIGH_PATTERNS ==
    <<[regex |-> "rm -rf", reason |-> "destructive_command", checkLocalhost |-> FALSE],
      [regex |-> "curl ", reason |-> "network_request", checkLocalhost |-> TRUE],
      [regex |-> "wget ", reason |-> "network_request", checkLocalhost |-> TRUE]>>

MEDIUM_PATTERNS ==
    <<[regex |-> "npm install", reason |-> "package_install", checkLocalhost |-> FALSE]>>

\* Words that contain a loopback name.
LoopbackWords == {"localhost", "127.0.0.1", "0.0.0.0", "::1"}

\* LOCALHOST_PATTERN.test(trimmed): a loopback name anywhere in the command.
LOCALHOST_PATTERN(c) == \E k \in 1..Len(c) : c[k] \in LoopbackWords

\* A word that the flag group `-[^\s]*` matches.
IsFlag(w) == w \in {"-rf", "-r", "-f"}

\* `\brm\s+(-[^\s]*\s+)*-{0,2}(rf|fr)`: rm, any flags, then the rf flag at j.
RmRfAt(c, j) ==
    /\ c[j] = "-rf"
    /\ \E k \in 1..(j - 1) : c[k] = "rm" /\ \A m \in (k + 1)..(j - 1) : IsFlag(c[m])

\* regex.test(value) for the regular expressions of the model, built-in and
\* user-supplied; (.+) of a user rule is its body.
RegexTest(regex, c) ==
    CASE regex = "rm -rf /$" ->
            \E j \in 1..Len(c) : RmRfAt(c, j) /\ j + 1 = Len(c) /\ c[j + 1] \in {"/", "~"}
      [] regex = "rm -rf" -> \E j \in 1..Len(c) : RmRfAt(c, j)
      [] regex = "curl " -> \E k \in 1..(Len(c) - 1) : c[k] = "curl"
      [] regex = "wget " -> \E k \in 1..(Len(c) - 1) : c[k] = "wget"
      [] regex = "npm install" ->
            \E k \in 1..(Len(c) - 1) : c[k] = "npm" /\ c[k + 1] = "install"
      [] regex = "cp|mv|tee|truncate" ->
            \E k \in 1..Len(c) : c[k] \in {"cp", "mv", "tee", "truncate"}
      [] regex = "^rm" -> c # << >> /\ c[1] = "rm"
      [] OTHER -> FALSE

\* `new RegExp(body, flags)` throws for a body that is not a regular expression.
Compiles(body) == body # "("

\* User rules: `/body/flags` is a regular expression, anything else a string
\* that is compared and then globbed.
RegexRule(body) == [form |-> "regex", body |-> body, words |-> << >>]

PlainRule(ws) == [form |-> "plain", body |-> "", words |-> ws]

CommandRules ==
    {PlainRule(<<"rm", "-rf", "./build">>), PlainRule(<<"npm", "*">>),
     RegexRule("^rm"), RegexRule("(")}

PathRules == {PlainRule(<<"/home/user/**">>)}

\* A glob word against a value word: equal, or a directory glob and a path
\* below that directory.
GlobWord(g, w) ==
    \/ g = w
    \/ g = "/home/user/**" /\ w \in {"/home/user/project"}

\* `*` does not match across a path separator.
HasSlash(w) == w \in {"/", "~/", "./build", "/app/workspace", "/home/user/project"}

RECURSIVE Minimatch(_, _)
\* minimatch(value, pattern, { dot: true }), word by word: `*` takes one or
\* more words without a path separator.
Minimatch(v, g) ==
    IF g = << >> THEN v = << >>
    ELSE IF v = << >> THEN FALSE
    ELSE IF Head(g) = "*"
         THEN /\ ~HasSlash(Head(v))
              /\ Minimatch(Tail(v), Tail(g)) \/ Minimatch(Tail(v), g)
         ELSE GlobWord(Head(g), Head(v)) /\ Minimatch(Tail(v), Tail(g))

\* Mutant: a rule whose regular expression does not compile matches.
MatchPattern_CatchMatches(value, pattern) ==
    IF pattern.form = "regex"
    THEN Compiles(pattern.body) => RegexTest(pattern.body, value)
    ELSE value = pattern.words \/ Minimatch(value, pattern.words)

\* #matchPattern(value, pattern)
MatchPattern(value, pattern) ==
    IF pattern.form = "regex"
    THEN Compiles(pattern.body) /\ RegexTest(pattern.body, value)
    ELSE value = pattern.words \/ Minimatch(value, pattern.words)

\* #matchesCommandAllowlist(command)
MatchesCommandAllowlist(command) ==
    \E k \in 1..Len(rules.allowlist.commands) :
        MatchPattern(command, rules.allowlist.commands[k])

\* #matchesAllowlist(command, workingDir)
MatchesAllowlist(command, workingDir) ==
    \/ MatchesCommandAllowlist(command)
    \/ /\ workingDir # << >>
       /\ \E k \in 1..Len(rules.allowlist.paths) :
             MatchPattern(workingDir, rules.allowlist.paths[k])

\* The reasons of a verdict: one tuple per reason.
Reason(name) == <<name>>

\* #matchesBlocklist(command): <<the reason of the first matching rule>>, or
\* nothing (null).
MatchesBlocklist(command) ==
    LET list == rules.blocklist.commands
        hits == {k \in 1..Len(list) : MatchPattern(command, list[k])}
    IN  IF hits = {} THEN << >>
        ELSE <<<<"blocklisted", list[CHOOSE k \in hits : \A j \in hits : k <= j]>>>>

RECURSIVE Matching(_, _, _)
\* One loop over a built-in list from its k-th pattern on: the reasons pushed.
Matching(patterns, c, k) ==
    IF k > Len(patterns) THEN << >>
    ELSE LET pattern == patterns[k] IN
         IF /\ RegexTest(pattern.regex, c)
            /\ ~(pattern.checkLocalhost /\ LOCALHOST_PATTERN(c))
         THEN <<Reason(pattern.reason)>> \o Matching(patterns, c, k + 1)
         ELSE Matching(patterns, c, k + 1)

\* `!workingDir.startsWith(workspace)` with the default workspace root.
OutsideWorkspace(workingDir) == workingDir # <<"/app/workspace">>

Verdict(level, reasons, command, workingDir, recommendation) ==
    [level |-> level, reasons |-> reasons, command |-> command,
     workingDir |-> workingDir, recommendation |-> recommendation]

\* Mutant: a downgrade keeps the recommendation of the medium tier.
Allowlisted_KeepsRecommendation(trimmed, workingDir) ==
    Verdict("low", <<Reason("allowlisted")>>, trimmed, workingDir, "log_and_allow")

\* The verdict of an allowlist match.
Allowlisted(trimmed, workingDir) ==
    Verdict("low", <<Reason("allowlisted")>>, trimmed, workingDir, "allow")

\* Mutant: the blocklist is consulted before the command allowlist.
UserRuleVerdict_BlockFirst(trimmed, workingDir) ==
    IF MatchesBlocklist(trimmed) # << >>
    THEN <<Verdict("critical", MatchesBlocklist(trimmed), trimmed, workingDir, "block")>>
    ELSE IF MatchesCommandAllowlist(trimmed)
    THEN <<Allowlisted(trimmed, workingDir)>>
    ELSE << >>

\* Mutant: the first check accepts a path-allowlist match as well.
UserRuleVerdict_AnyAllowlist(trimmed, workingDir) ==
    IF MatchesAllowlist(trimmed, workingDir)
    THEN <<Allowlisted(trimmed, workingDir)>>
    ELSE IF MatchesBlocklist(trimmed) # << >>
    THEN <<Verdict("critical", MatchesBlocklist(trimmed), trimmed, workingDir, "block")>>
    ELSE << >>

\* analyzeCommand, the user rules: <<the verdict returned early>>, or nothing.
UserRuleVerdict(trimmed, workingDir) ==
    IF MatchesCommandAllowlist(trimmed)
    THEN <<Allowlisted(trimmed, workingDir)>>
    ELSE IF MatchesBlocklist(trimmed) # << >>
    THEN <<Verdict("critical", MatchesBlocklist(trimmed), trimmed, workingDir, "block")>>
    ELSE << >>

\* Mutant: the high tier accepts a path-allowlist match as well.
BuiltinVerdict_PathLowersHigh(trimmed, workingDir) ==
    LET critical == Matching(CRITICAL_PATTERNS, trimmed, 1)
        high == Matching(HIGH_PATTERNS, trimmed, 1)
        medium == Matching(MEDIUM_PATTERNS, trimmed, 1) \o
            (IF /\ workingDir # << >>
                /\ OutsideWorkspace(workingDir)
                /\ RegexTest("cp|mv|tee|truncate", trimmed)
             THEN <<Reason("file_operation_outside_workspace")>>
             ELSE << >>)
    IN  IF critical # << >>
        THEN Verdict("critical", critical, trimmed, workingDir, "block")
        ELSE IF high # << >>
        THEN IF MatchesAllowlist(trimmed, workingDir)
             THEN Allowlisted(trimmed, workingDir)
             ELSE Verdict("high", high, trimmed, workingDir, "approve")
        ELSE IF medium # << >>
        THEN IF MatchesAllowlist(trimmed, workingDir)
             THEN Allowlisted(trimmed, workingDir)
             ELSE Verdict("medium", medium, trimmed, workingDir, "log_and_allow")
        ELSE Verdict("low", <<Reason("standard_command")>>, trimmed, workingDir, "allow")

\* analyzeCommand, the built-in tiers.
BuiltinVerdict(trimmed, workingDir) ==
    LET critical == Matching(CRITICAL_PATTERNS, trimmed, 1)
        high == Matching(HIGH_PATTERNS, trimmed, 1)
        medium == Matching(MEDIUM_PATTERNS, trimmed, 1) \o
            (IF /\ workingDir # << >>
                /\ OutsideWorkspace(workingDir)
                /\ RegexTest("cp|mv|tee|truncate", trimmed)
             THEN <<Reason("file_operation_outside_workspace")>>
             ELSE << >>)
    IN  IF critical # << >>
        THEN Verdict("critical", critical, trimmed, workingDir, "block")
        ELSE IF high # << >>
        THEN IF MatchesCommandAllowlist(trimmed)
             THEN Allowlisted(trimmed, workingDir)
             ELSE Verdict("high", high, trimmed, workingDir, "approve")
        ELSE IF medium # << >>
        THEN IF MatchesAllowlist(trimmed, workingDir)
             THEN Allowlisted(trimmed, workingDir)
             ELSE Verdict("medium", medium, trimmed, workingDir, "log_and_allow")
        ELSE Verdict("low", <<Reason("standard_command")>>, trimmed, workingDir, "allow")

\* RiskAnalyzer.analyzeCommand(command, workingDir)
analyzeCommand(command, workingDir) ==
    LET trimmed == Trim(command) IN
    IF UserRuleVerdict(trimmed, workingDir) # << >>
    THEN UserRuleVerdict(trimmed, workingDir)[1]
    ELSE BuiltinVerdict(trimmed, workingDir)

\* The rule lists of a configuration.
AllowLists == {<< >>} \cup {<<p>> : p \in CommandRules}

\* The empty pattern that `'a,'.split(',')` leaves in a list read from the
\* environment.
EmptyRule == PlainRule(<< >>)

BlockLists ==
    AllowLists \cup {pq \in CommandRules \X CommandRules : pq[1] # pq[2]}
        \cup {<<EmptyRule>>}

PathLists == {<< >>} \cup {<<p>> : p \in PathRules}

\* The configurations a RiskAnalyzer is constructed with.
RuleSets ==
    {[allowlist |-> [commands |-> a, paths |-> p], blocklist |-> [commands |-> b]] :
        a \in AllowLists, p \in PathLists, b \in BlockLists}

\* No user rules: the analyzer of the orchestrator without a config file.
NoRules == [allowlist |-> [commands |-> << >>, paths |-> << >>],
            blocklist |-> [commands |-> << >>]]

\* No analyzeCommand call has been made.
NoAnalysis == << >>

\* One analyzeCommand call. The analyzer's only field is #config and the call
\* writes nothing, so one call per behaviour is followed.
Classify(command, workingDir) ==
    /\ analysis = NoAnalysis
    /\ analysis' = <<[command |-> command, workingDir |-> workingDir,
                      verdict |-> analyzeCommand(command, workingDir)]>>
    /\ UNCHANGED <<ledger, now, ret, channel, calls, rules, poller>>

\* A `/body/flags` rule whose body `new RegExp` rejects.
Malformed(rule) == rule.form = "regex" /\ ~Compiles(rule.body)

WithoutMalformed(list) == SelectSeq(list, LAMBDA rule : ~Malformed(rule))

HasMalformed(list) == \E k \in 1..Len(list) : Malformed(list[k])

\* The same call on an analyzer constructed from the configuration with its
\* malformed rules taken out.
ClassifyWithoutMalformed ==
    /\ Len(analysis) = 1
    /\ HasMalformed(rules.allowlist.commands \o rules.allowlist.paths
                        \o rules.blocklist.commands)
    /\ rules' = [allowlist |-> [commands |-> WithoutMalformed(rules.allowlist.commands),
                                paths |-> WithoutMalformed(rules.allowlist.paths)],
                 blocklist |-> [commands |-> WithoutMalformed(rules.blocklist.commands)]]
    /\ \E command \in {analysis[1].command}, workingDir \in {analysis[1].workingDir} :
          analysis' = Append(analysis,
              [command |-> command, workingDir |-> workingDir,
               verdict |-> analyzeCommand(command, workingDir)'])
    /\ UNCHANGED <<ledger, now, ret, channel, calls, poller>>

\* ---------------------------------------------------------------- notifier
\* timeoutMs of a pollForResponse call and the pause between two rounds, in
\* clock ticks.
PollTimeoutTicks == 2

PollInterval == 1

\* No pollForResponse call has been made.
NoPoll ==
    [pc |-> "idle", deadline |-> 0, remote |-> "none", errors |-> 0, result |-> << >>]

\* What pollForResponse returns at its deadline and from #waitForManualResponse.
PollTimedOut == [approved |-> FALSE, decidedBy |-> "timeout"]

\* What a round returns for the answer the service reports, per notifier.
RoundResult(ch, remote) ==
    IF ch = "telegram"
    THEN [approved |-> remote = "approved", decidedBy |-> "user_telegram"]
    ELSE PollResult(remote)

\* pollForResponse(receipt, timeoutMs) up to its first await. Pushover without
\* a receipt goes to #waitForManualResponse; Telegram polls for its request id.
PollBegin(rcpt) ==
    /\ poller.pc = "idle"
    /\ channel # "mock"
    /\ rcpt \/ channel = "pushover"
    /\ poller' = [poller EXCEPT
          !.pc = IF rcpt THEN "loop" ELSE "manual",
          !.deadline = now + PollTimeoutTicks]
    /\ UNCHANGED <<ledger, now, ret, channel, calls, analyzer>>

\* `while (Date.now() < deadline)`: another round, or the return after the loop.
PollLoop ==
    /\ poller.pc = "loop"
    /\ poller' = IF now < poller.deadline
                 THEN [poller EXCEPT !.pc = "get"]
                 ELSE [poller EXCEPT !.pc = "returned", !.result = <<PollTimedOut>>]
    /\ UNCHANGED <<ledger, now, ret, channel, calls, analyzer>>

\* The human acknowledges (or rejects), or the service lets the notification expire.
PollRemoteAnswer(ans) ==
    /\ poller.pc \in {"loop", "get", "sleep"}
    /\ poller.remote = "none"
    /\ ans \in RemoteAnswers(channel)
    /\ poller' = [poller EXCEPT !.remote = ans]
    /\ UNCHANGED <<ledger, now, ret, channel, calls, analyzer>>

\* `await axios.get(...)` resolved: return on an answer, else go on to the pause.
PollResponse ==
    /\ poller.pc = "get"
    /\ poller' = IF poller.remote # "none"
                 THEN [poller EXCEPT !.pc = "returned",
                                     !.result = <<RoundResult(channel, poller.remote)>>]
                 ELSE [poller EXCEPT !.pc = "sleep"]
    /\ UNCHANGED <<ledger, now, ret, channel, calls, analyzer>>

\* `await axios.get(...)` rejected: `catch { }`, then the pause.
PollNetworkError ==
    /\ poller.pc = "get"
    /\ poller' = [poller EXCEPT !.pc = "sleep", !.errors = @ + 1]
    /\ UNCHANGED <<ledger, now, ret, channel, calls, analyzer>>

\* `await sleep(pollInterval)`: the timer runs after the interval.
PollSleepDone ==
    /\ poller.pc = "sleep"
    /\ now + PollInterval <= MaxTime
    /\ now' = now + PollInterval
    /\ poller' = [poller EXCEPT !.pc = "loop"]
    /\ UNCHANGED <<ledger, ret, channel, calls, analyzer>>

\* The setTimeout of #waitForManualResponse runs.
PollManualTimeout ==
    /\ poller.pc = "manual"
    /\ now' = poller.deadline
    /\ poller' = [poller EXCEPT !.pc = "returned", !.result = <<PollTimedOut>>]
    /\ UNCHANGED <<ledger, ret, channel, calls, analyzer>>

\* -------------------------------------------------------------------- Init
Init ==
    /\ store = [i \in Ids |-> 0]
    /\ nreq = 0
    /\ entries = [r \in Reqs |-> NoEntry]
    /\ promise = [r \in Reqs |-> << >>]
    /\ sweep = TRUE
    /\ now = 0
    /\ ret = NoCall
    /\ channel \in Channels
    /\ calls = [h \in Calls |-> NoHandle]
    /\ rules = NoRules
    /\ analysis = NoAnalysis
    /\ poller = NoPoll

\* The program: clawshell_bash calls sharing the module's ledger, the manual
\* clawshell_approve / clawshell_reject, the timers, the sweep and destroy().
Next ==
    \/ \E h \in Calls, lvl \in Levels : Start(h, lvl)
    \/ \E h \in Calls, rcpt \in BOOLEAN : SendOk(h, rcpt)
    \/ \E h \in Calls : SendFail(h)
    \/ \E h \in Calls, ans \in {"approved", "rejected", "expired"} : RemoteAnswer(h, ans)
    \/ \E h \in Calls : PollReturn(h)
    \/ \E h \in Calls : PollDeadline(h)
    \/ \E h \in Calls : AwaitDecision(h)
    \/ \E h \in Calls, code \in {0, 1} : ExecDone(h, code)
    \/ \E i \in Ids : Approve(i)
    \/ \E i \in Ids : Reject(i)
    \/ \E r \in Reqs : TimerFire(r)
    \/ \E b \in BOOLEAN : Cleanup(b)
    \/ Destroy
    \/ Tick

Spec == Init /\ [][Next]_vars

\* The PendingApprovals class alone, under its public API: add() takes any
\* caller-supplied id, also one that is already stored.
LedgerInit == Init /\ channel = "mock"

LedgerNext ==
    \/ \E i \in Ids : Add(i)
    \/ \E i \in Ids : Approve(i)
    \/ \E i \in Ids : Reject(i)
    \/ \E r \in Reqs : TimerFire(r)
    \/ \E b \in BOOLEAN : Cleanup(b)
    \/ Destroy
    \/ Tick

LedgerSpec == LedgerInit /\ [][LedgerNext]_vars

\* The ledger with the scheduling the runtime guarantees: the clock advances
\* and an armed timer whose delay has elapsed runs its callback.
LedgerFairSpec ==
    /\ LedgerSpec
    /\ WF_vars(Tick)
    /\ \A r \in Reqs : WF_vars(TimerFire(r))

\* The whole program with an audit sink whose writes may fail.
SinkNext ==
    \/ Next
    \/ \E h \in Calls, lvl \in Levels : StartLogThrows(h, lvl)
    \/ \E h \in Calls : SendFailLogThrows(h)
    \/ \E h \in Calls : AwaitDecisionLogThrows(h)

SinkSpec == Init /\ [][SinkNext]_vars

\* The RiskAnalyzer alone: constructed with any rule set, then asked to
\* classify any command in any working directory.
ClassifierInit ==
    /\ store = [i \in Ids |-> 0]
    /\ nreq = 0
    /\ entries = [r \in Reqs |-> NoEntry]
    /\ promise = [r \in Reqs |-> << >>]
    /\ sweep = TRUE
    /\ now = 0
    /\ ret = NoCall
    /\ channel = "mock"
    /\ calls = [h \in Calls |-> NoHandle]
    /\ rules \in RuleSets
    /\ analysis = NoAnalysis
    /\ poller = NoPoll

ClassifierNext == \E command \in RawCommands, workingDir \in Dirs : Classify(command, workingDir)

ClassifierSpec == ClassifierInit /\ [][ClassifierNext]_vars

\* The RiskAnalyzer, and next to it the analyzer that the configuration gives
\* once its malformed rules are removed, asked the same question.
RuleRemovalNext == ClassifierNext \/ ClassifyWithoutMalformed

RuleRemovalSpec == ClassifierInit /\ [][RuleRemovalNext]_vars

\* A notifier alone: one pollForResponse call against a service that answers,
\* fails or stays silent.
PollInit == Init /\ channel # "mock"

PollNext ==
    \/ \E rcpt \in BOOLEAN : PollBegin(rcpt)
    \/ PollLoop
    \/ \E ans \in {"approved", "rejected", "expired"} : PollRemoteAnswer(ans)
    \/ PollResponse
    \/ PollNetworkError
    \/ PollSleepDone
    \/ PollManualTimeout

PollSpec == PollInit /\ [][PollNext]_vars

\* The polling loop with the scheduling the runtime guarantees: the loop goes
\* on and its timers run. The service owes no answer to a request.
PollFairSpec ==
    /\ PollSpec
    /\ WF_vars(PollLoop)
    /\ WF_vars(PollSleepDone)
    /\ WF_vars(PollManualTimeout)

\* The program with the scheduling the runtime and the executor guarantee: the
\* clock advances, an armed timer whose delay has elapsed runs, a settled
\* promise resumes its awaiter, and the executor terminates. The notification
\* service owes no answer: neither the send nor the poll is fair.
FairSpec ==
    /\ Spec
    /\ WF_vars(Tick)
    /\ \A r \in Reqs : WF_vars(TimerFire(r))
    /\ \A h \in Calls : WF_vars(AwaitDecision(h))
    /\ \A h \in Calls : WF_vars(\E code \in {0, 1} : ExecDone(h, code))

\* The fields of an entry whose value is an object (an Array, a Date): the
\* rest-destructuring copies the reference, so the snapshot and the stored
\* entry share the object.
SharedFields == {"riskReasons", "timestamp"}

\* What a caller may write into a field of a snapshot.
FieldValues(f) ==
    CASE f = "status" -> {"pending", "approved", "rejected", "timeout"}
      [] f = "riskReasons" -> {<< >>, <<"why", "more">>}
      [] OTHER -> {}

\* A caller changes field f of the snapshot get(i) returned: an assignment for
\* a primitive (snapshot.status = v), an update in place for an object
\* (snapshot.riskReasons.push(...), .length = 0).
MutateSnapshot(i, f, v) ==
    /\ Get(i) # Null
    /\ v \in FieldValues(f)
    /\ entries' = IF f \in SharedFields
                  THEN [entries EXCEPT ![store[i]][f] = v]
                  ELSE entries
    /\ ret' = NoCall
    /\ UNCHANGED <<store, nreq, promise, sweep, now, channel, analyzer, poller, calls>>

\* The ledger with a caller that also writes to the snapshots it was given.
\* Updates of the shared Date are left out: the model's timers read the
\* creation time from the timestamp field.
CallerNext ==
    \/ LedgerNext
    \/ \E i \in Ids, f \in {"status", "riskReasons"} :
          \E v \in FieldValues(f) : MutateSnapshot(i, f, v)

CallerSpec == LedgerInit /\ [][CallerNext]_vars

\* ------------------------------------------------------------------ claims
\* The id names an entry of the ledger that is still pending.
IsPendingId(i) == store[i] # 0 /\ entries[store[i]].status = "pending"

\* Entry r is the one the ledger holds under its id.
IsStored(r) == r <= nreq /\ store[entries[r].id] = r

\* C1: the status of a request leaves 'pending' at most once, to one of
\* approved/rejected/timeout, and never changes afterwards; the resolver of
\* its completion is invoked at most once, so the settled value never changes.
C1_SingleTransition ==
    [][\A r \in Reqs :
        /\ entries[r].status \in Terminal => entries'[r].status = entries[r].status
        /\ entries[r].status = "pending" =>
              entries'[r].status \in Terminal \cup {"pending"}
        /\ Len(promise'[r]) <= 1
        /\ Settled(r) => promise'[r] = promise[r]]_vars

\* A decided request on which a later approve/reject was attempted after its
\* timeout had elapsed.
C1_Witness ==
    \E r \in Reqs :
        /\ IsStored(r)
        /\ entries[r].status = "rejected"
        /\ now >= entries[r].timestamp + TimeoutTicks
        /\ Len(promise[r]) = 1
        /\ ret = <<FALSE>>

\* C2: every request registered with add eventually has its completion
\* settled, whatever ledger operations follow the add.
C2_EventuallySettled == \A r \in Reqs : (r <= nreq) ~> Settled(r)

\* C3: on a pending request approve(id) returns true, sets the status to
\* 'approved' and settles with {approved: true, decidedBy: 'user'}; reject(id)
\* returns true, sets 'rejected' and settles with {approved: false,
\* decidedBy: 'user'}.
C3_DecidePending ==
    [][\A i \in Ids : IsPendingId(i) =>
        /\ Approve(i) =>
              /\ ret' = <<TRUE>>
              /\ entries'[store[i]].status = "approved"
              /\ promise'[store[i]] = <<[approved |-> TRUE, decidedBy |-> "user"]>>
        /\ Reject(i) =>
              /\ ret' = <<TRUE>>
              /\ entries'[store[i]].status = "rejected"
              /\ promise'[store[i]] = <<[approved |-> FALSE, decidedBy |-> "user"]>>]_vars

\* Right after a successful reject: the stored entry is 'rejected' and settled.
C3_Witness ==
    \E r \in Reqs :
        /\ IsStored(r)
        /\ ret = <<TRUE>>
        /\ entries[r].status = "rejected"
        /\ promise[r] = <<[approved |-> FALSE, decidedBy |-> "user"]>>

\* C4: approve(id) and reject(id) on an unknown id or on a request that is
\* already terminal return false and leave the ledger and every completion
\* unchanged.
C4_DecideNoop ==
    [][\A i \in Ids : (~IsPendingId(i) /\ (Approve(i) \/ Reject(i))) =>
        /\ ret' = <<FALSE>>
        /\ UNCHANGED <<store, nreq, entries, promise, sweep>>]_vars

\* Right after a second approve on an approved request: it returned false.
C4_Witness ==
    \E r \in Reqs :
        /\ IsStored(r)
        /\ entries[r].status = "approved"
        /\ promise[r] = <<[approved |-> TRUE, decidedBy |-> "user"]>>
        /\ \A q \in Reqs : q # r => ~IsStored(q)
        /\ ret = <<FALSE>>

\* C5: when the timer of a request of the ledger fires while the request is
\* pending, its status becomes 'timeout' and its completion is settled with
\* {approved: false, reason: 'timeout', decidedBy: 'timeout'}; when the
\* request is already decided, the firing changes no status, no completion and
\* no stored entry.
C5_TimerFire ==
    [][\A r \in Reqs : (IsStored(r) /\ TimerFire(r)) =>
        IF entries[r].status = "pending"
        THEN /\ entries'[r].status = "timeout"
             /\ promise'[r] =
                  <<[approved |-> FALSE, reason |-> "timeout", decidedBy |-> "timeout"]>>
        ELSE /\ \A q \in Reqs : entries'[q].status = entries[q].status
             /\ UNCHANGED <<store, promise>>]_vars

\* A stored request whose own timer fired and timed it out.
C5_Witness ==
    \E r \in Reqs :
        /\ IsStored(r)
        /\ entries[r].timer = "fired"
        /\ entries[r].status = "timeout"
        /\ promise[r] =
             <<[approved |-> FALSE, reason |-> "timeout", decidedBy |-> "timeout"]>>

\* C6: a high command reaches the executor only after its ledger request was
\* settled with an approved outcome; with an outcome that is not approved the
\* call returns exit code 1 with the reason in stderr and never executes.
C6_HighNeedsApproval ==
    \A h \in Calls : calls[h].level = "high" =>
        LET r == calls[h].req IN
        /\ calls[h].execs > 0 => (Settled(r) /\ Outcome(r).approved)
        /\ calls[h].pc = "executing" => calls[h].execs = 1
        /\ (Settled(r) /\ ~Outcome(r).approved) =>
              /\ calls[h].execs = 0
              /\ calls[h].pc \in {"sending", "waiting", "done"}
              /\ calls[h].pc = "done" =>
                    calls[h].result = <<[exitCode |-> 1, stdout |-> "",
                        stderr |-> <<"REJECTED",
                            IF Outcome(r).decidedBy = "timeout"
                            THEN "timeout" ELSE "rejected by user">>]>>

\* A high call that returned the timeout rejection without executing.
C6_Witness ==
    \E h \in Calls :
        /\ calls[h].level = "high"
        /\ calls[h].pc = "done"
        /\ calls[h].execs = 0
        /\ calls[h].result =
             <<[exitCode |-> 1, stdout |-> "", stderr |-> <<"REJECTED", "timeout">>]>>

\* C7: a critical command gets one audit entry 'auto-blocked', a failure
\* result with a non-zero exit code, no ledger request, no notification and
\* no executor call; the step that handles it leaves the ledger untouched.
C7_CriticalBlocked ==
    [][\A h \in Calls : calls'[h].level = "critical" =>
        /\ calls'[h].pc = "done"
        /\ calls'[h].audit =
             <<[kind |-> "decision", decision |-> "auto-blocked",
                decided_by |-> "auto", risk_level |-> "critical"]>>
        /\ Len(calls'[h].result) = 1
        /\ calls'[h].result[1].exitCode # 0
        /\ calls'[h].req = 0
        /\ calls'[h].notif = "none"
        /\ calls'[h].poll = "none"
        /\ calls'[h].execs = 0
        /\ calls[h].level # "critical" => UNCHANGED <<store, nreq, entries, promise>>]_vars

\* A critical call that has returned.
C7_Witness ==
    \E h \in Calls :
        /\ calls[h].level = "critical"
        /\ calls[h].pc = "done"
        /\ calls[h].result = <<[exitCode |-> 1, stdout |-> "", stderr |-> <<"BLOCKED">>]>>

\* C8: the first of the timer, the background poll and a manual decision to
\* settle the request fixes the outcome the call observes; a later attempt
\* changes neither the status nor the outcome.
C8_FirstSettlementWins ==
    [][\A h \in Calls : calls[h].req # 0 =>
        LET r == calls[h].req
            i == calls[h].id
        IN
        /\ Settled(r) =>
              /\ promise'[r] = promise[r]
              /\ entries'[r].status = entries[r].status
        /\ (~Settled(r) /\ promise'[r] # << >>) =>
              \/ /\ TimerFire(r)
                 /\ promise'[r][1].decidedBy = "timeout"
                 /\ entries'[r].status = "timeout"
              \/ /\ PollReturn(h) \/ PollDeadline(h) \/ Approve(i) \/ Reject(i)
                 /\ promise'[r][1].decidedBy = "user"
                 /\ entries'[r].status =
                      IF promise'[r][1].approved THEN "approved" ELSE "rejected"
        /\ (calls[h].decision = << >> /\ calls'[h].decision # << >>) =>
              /\ Settled(r)
              /\ calls'[h].decision = <<Outcome(r)>>]_vars

\* The timer won, the poll then saw the human's approval and its approve()
\* was refused, and the call observed the timeout.
C8_Witness ==
    \E h \in Calls :
        /\ calls[h].poll = "done"
        /\ calls[h].remote = "approved"
        /\ entries[calls[h].req].status = "timeout"
        /\ calls[h].decision =
             <<[approved |-> FALSE, reason |-> "timeout", decidedBy |-> "timeout"]>>

\* C9: a failed sendApprovalRequest does not fail the call: the step leaves
\* the ledger as it is and goes on to await the completion, no poll is ever
\* started, and the request is settled only by its timer or by a manual
\* approve/reject.
C9_SendFailureNonFatal ==
    [][\A h \in Calls :
        /\ SendFail(h) =>
              /\ calls'[h].pc = "waiting"
              /\ calls'[h].result = << >>
              /\ UNCHANGED <<store, nreq, entries, promise, sweep>>
        /\ calls[h].notif = "failed" =>
              /\ calls'[h].notif = "failed"
              /\ calls'[h].poll = "none"
              /\ (~Settled(calls[h].req) /\ promise'[calls[h].req] # << >>) =>
                    TimerFire(calls[h].req) \/ Approve(calls[h].id) \/ Reject(calls[h].id)
              /\ calls'[h].pc = "done" =>
                    calls'[h].decision = <<Head(promise'[calls[h].req])>>]_vars

\* A call whose send failed and that later returned on the ledger's timeout.
C9_Witness ==
    \E h \in Calls :
        /\ calls[h].notif = "failed"
        /\ calls[h].pc = "done"
        /\ calls[h].decision =
             <<[approved |-> FALSE, reason |-> "timeout", decidedBy |-> "timeout"]>>

\* C10: on the push and on the chat-bot channel, once the notification is
\* delivered and the human has approved through the channel while the request
\* is pending, a poll is running that will forward the approval.
C10_ApprovalIsForwarded ==
    \A h \in Calls :
        ( /\ channel \in {"pushover", "telegram"}
          /\ calls[h].notif = "delivered"
          /\ calls[h].remote = "approved"
          /\ IsPendingId(calls[h].id) ) => calls[h].poll = "running"

\* C11: a call for a high command returns once its ledger request is settled,
\* whatever the notification channel does: the only waits are for the ledger
\* completion and for the executor.
C11_ReturnsOnceSettled ==
    \A h \in Calls :
        (calls[h].level = "high" /\ Settled(calls[h].req)) ~> (calls[h].pc = "done")

\* C12: when destroy() returns, the periodic sweep is cancelled and no timer
\* of the ledger is left armed, so none can fire afterwards.
C12_DestroyCancelsTimers ==
    [][Destroy => (~sweep' /\ \A r \in Reqs : entries'[r].timer # "armed")]_vars

\* C13: when destroy() returns, no background poll started by the
\* orchestrator is left running.
C13_DestroyCancelsPolls ==
    [][Destroy => \A h \in Calls : calls'[h].poll # "running"]_vars

\* The age of entry r, counted from its creation by add().
Age(r) == now - entries[r].timestamp

\* C14: cleanup() removes exactly the stored entries that are terminal and
\* older than twice the timeout: a pending entry stays whatever its age, a
\* terminal entry of age at most twice the timeout stays, and no entry and no
\* completion is modified.
C14_CleanupExact ==
    [][\A b \in BOOLEAN : Cleanup(b) =>
        /\ \A i \in Ids :
              IF store[i] # 0 /\ entries[store[i]].status \in Terminal
                              /\ Age(store[i]) > 2 * TimeoutTicks
              THEN store'[i] = 0
              ELSE store'[i] = store[i]
        /\ UNCHANGED <<nreq, entries, promise>>]_vars

\* After a sweep that evicted an old approved request and kept a pending one
\* of the same age: no destroy() and no second add of the id took place.
C14_Witness ==
    \E r, q \in Reqs :
        /\ r <= nreq /\ q <= nreq
        /\ entries[r].id # entries[q].id
        /\ sweep
        /\ entries[r].status = "approved"
        /\ Age(r) > 2 * TimeoutTicks
        /\ store[entries[r].id] = 0
        /\ entries[q].status = "pending"
        /\ Age(q) > 2 * TimeoutTicks
        /\ IsStored(q)

\* C15: a request that is still pending at time t becomes terminal at t or
\* later, so while it is terminal and the clock is below t plus twice the
\* timeout, no sweep has evicted it: get(id) still finds it. (A ledger that
\* was destroyed, or an id that a later add took over, is left aside.)
C15_GraceFromTerminal ==
    \A r \in Reqs : \A t \in 0..MaxTime :
        []((entries[r].status = "pending" /\ now = t) =>
            []((/\ entries[r].status \in Terminal
                /\ now < t + 2 * TimeoutTicks
                /\ sweep
                /\ store[entries[r].id] \in {0, r}) => Get(entries[r].id) # Null))

\* The fields a snapshot may have.
SnapshotFields ==
    {"id", "command", "workingDir", "riskLevel", "riskReasons", "timestamp", "status"}

\* C16: get(id) on an id the ledger does not hold returns null; every snapshot
\* returned by get or list has exactly the fields id, command, workingDir,
\* riskLevel, riskReasons, timestamp and status, so neither the resolver nor
\* the timer handle is exposed.
C16_NoHandlesExposed ==
    /\ \A i \in Ids :
          IF store[i] = 0
          THEN Get(i) = Null
          ELSE /\ DOMAIN Get(i) = SnapshotFields
               /\ \A f \in SnapshotFields : Get(i)[f] = entries[store[i]][f]
    /\ \A k \in 1..Len(List) : DOMAIN List[k] = SnapshotFields

\* get and list on a ledger that holds a pending request with its timer armed
\* and does not hold the other id.
C16_Witness ==
    \E i, j \in Ids :
        /\ store[i] # 0
        /\ entries[store[i]].timer = "armed"
        /\ entries[store[i]].resolver = store[i]
        /\ Get(i).status = "pending"
        /\ Len(List) = 1
        /\ store[j] = 0
        /\ Get(j) = Null

\* C17: list() returns exactly the stored requests whose status is 'pending':
\* each of them once, as the snapshot get returns, and no terminal request.
C17_ListExactlyPending ==
    /\ \A i \in Ids :
          Cardinality({k \in 1..Len(List) : List[k].id = i}) =
              IF store[i] # 0 /\ entries[store[i]].status = "pending" THEN 1 ELSE 0
    /\ \A k \in 1..Len(List) :
          /\ List[k].status = "pending"
          /\ List[k] = Get(List[k].id)

\* list() on a ledger that holds one pending and one rejected request.
C17_Witness ==
    \E i, j \in Ids :
        /\ store[i] # 0 /\ entries[store[i]].status = "pending"
        /\ store[j] # 0 /\ entries[store[j]].status = "rejected"
        /\ Len(List) = 1
        /\ List[1].id = i

\* C18: writing to any field of a value returned by get or list leaves the
\* ledger's stored requests, the map and the completions unchanged.
C18_SnapshotsAreCopies ==
    [][\A i \in Ids, f \in {"status", "riskReasons"} :
        \A v \in FieldValues(f) :
            MutateSnapshot(i, f, v) => UNCHANGED <<store, nreq, entries, promise, sweep>>]_vars

\* The last classification: its trimmed command, directory and verdict.
Classified == analysis # NoAnalysis

LastCommand == Trim(analysis[1].command)

LastDir == analysis[1].workingDir

LastVerdict == analysis[1].verdict

\* C19 as stated: a command matched by a blocklist rule classifies
\* 'critical', whatever allowlist rule (command or path) also matches.
C19_BlocklistAlwaysCritical ==
    Classified =>
        (MatchesBlocklist(LastCommand) # << >> => LastVerdict.level = "critical")

\* C19 as amended: a command matched by a blocklist rule and by no
\* command-allowlist rule classifies 'critical' with recommendation 'block'
\* and the first matching blocklist rule as its reason, whatever
\* path-allowlist rule matches the working directory.
C19_BlocklistCriticalUnlessAllowlisted ==
    Classified =>
        ((MatchesBlocklist(LastCommand) # << >> /\ ~MatchesCommandAllowlist(LastCommand)) =>
            /\ LastVerdict.level = "critical"
            /\ LastVerdict.recommendation = "block"
            /\ LastVerdict.reasons = MatchesBlocklist(LastCommand)
            /\ LastVerdict.reasons[1][1] = "blocklisted")

\* A blocklisted command classified 'critical' in a working directory that a
\* path-allowlist rule matches, with a malformed rule ahead of the matching one.
C19_Witness ==
    /\ Classified
    /\ MatchesBlocklist(LastCommand) # << >>
    /\ Len(rules.blocklist.commands) = 2
    /\ ~Compiles(rules.blocklist.commands[1].body)
    /\ ~MatchesCommandAllowlist(LastCommand)
    /\ MatchesAllowlist(LastCommand, LastDir)
    /\ LastVerdict.level = "critical"

C21_CriticalNeverLowered ==
    Classified =>
        (Matching(CRITICAL_PATTERNS, LastCommand, 1) # << >> =>
            /\ LastVerdict.level = "critical"
            /\ LastVerdict.recommendation = "block")

\* The working directory is on the path allowlist and no command rule, allow
\* or block, matches the command.
OnlyPathRuleMatches ==
    /\ MatchesAllowlist(LastCommand, LastDir)
    /\ ~MatchesCommandAllowlist(LastCommand)
    /\ MatchesBlocklist(LastCommand) = << >>

\* The medium tier has a reason for the last command.
MediumApplies ==
    \/ Matching(MEDIUM_PATTERNS, LastCommand, 1) # << >>
    \/ OutsideWorkspace(LastDir) /\ RegexTest("cp|mv|tee|truncate", LastCommand)

\* C22: when only a path-allowlist rule matches, a command of the medium tier
\* classifies low/'allowlisted', while a command that a high pattern matches
\* still classifies 'high' and one that a critical pattern matches 'critical'.
C22_PathAllowlistOnlyMedium ==
    (Classified /\ OnlyPathRuleMatches) =>
        IF Matching(CRITICAL_PATTERNS, LastCommand, 1) # << >>
        THEN LastVerdict.level = "critical"
        ELSE IF Matching(HIGH_PATTERNS, LastCommand, 1) # << >>
        THEN /\ LastVerdict.level = "high"
             /\ LastVerdict.recommendation = "approve"
        ELSE MediumApplies =>
             /\ LastVerdict.level = "low"
             /\ LastVerdict.reasons = <<<<"allowlisted">>>>

\* A high-pattern command classified 'high' in an allowlisted directory.
C22_Witness ==
    /\ Classified
    /\ OnlyPathRuleMatches
    /\ Matching(CRITICAL_PATTERNS, LastCommand, 1) = << >>
    /\ Matching(HIGH_PATTERNS, LastCommand, 1) # << >>
    /\ LastVerdict.level = "high"

\* The recommendation that goes with a level.
RecommendationOf(level) ==
    CASE level = "low" -> "allow"
      [] level = "medium" -> "log_and_allow"
      [] level = "high" -> "approve"
      [] level = "critical" -> "block"

\* C24: the recommendation of a verdict is determined by its level: 'allow'
\* for low, 'log_and_allow' for medium, 'approve' for high, 'block' for
\* critical.
C24_RecommendationFollowsLevel ==
    Classified =>
        /\ LastVerdict.level \in {"low", "medium", "high", "critical"}
        /\ LastVerdict.recommendation = RecommendationOf(LastVerdict.level)

\* A medium-tier command downgraded by an allowlist: level low, recommendation
\* 'allow'.
C24_Witness ==
    /\ Classified
    /\ MediumApplies
    /\ Matching(HIGH_PATTERNS, LastCommand, 1) = << >>
    /\ LastVerdict.level = "low"
    /\ LastVerdict.recommendation = "allow"

\* A network fetch in the last command whose target is not a loopback name.
FetchesRemoteHost ==
    \E k \in 1..(Len(LastCommand) - 1) :
        LastCommand[k] \in {"curl", "wget"} /\ LastCommand[k + 1] \notin LoopbackWords

\* C25: a network fetch is exempt only when its own target is loopback: a
\* command that fetches from a non-loopback host, and that no user command
\* rule and no critical pattern matches, classifies 'high' with reason
\* 'network_request', also when a loopback name appears elsewhere in it.
C25_RemoteFetchIsHigh ==
    Classified =>
        ((/\ FetchesRemoteHost
          /\ ~MatchesCommandAllowlist(LastCommand)
          /\ MatchesBlocklist(LastCommand) = << >>
          /\ Matching(CRITICAL_PATTERNS, LastCommand, 1) = << >>) =>
            /\ LastVerdict.level = "high"
            /\ \E k \in 1..Len(LastVerdict.reasons) :
                  LastVerdict.reasons[k] = <<"network_request">>)

RECURSIVE FragmentsOf(_)
\* The fragments of a compound command: its words split at each "&&".
FragmentsOf(c) ==
    IF \E k \in 1..Len(c) : c[k] = "&&"
    THEN LET k == CHOOSE j \in 1..Len(c) : c[j] = "&&" /\ \A m \in 1..(j - 1) : c[m] # "&&"
         IN  {SubSeq(c, 1, k - 1)} \cup FragmentsOf(SubSeq(c, k + 1, Len(c)))
    ELSE {c}

\* The levels in ascending order.
Rank(level) ==
    CASE level = "low" -> 0
      [] level = "medium" -> 1
      [] level = "high" -> 2
      [] level = "critical" -> 3

\* C26: with no user rules, a compound command one of whose fragments
\* classifies 'high' or 'critical' alone is itself classified at least 'high'.
C26_FragmentElevatesCompound ==
    (Classified /\ rules = NoRules) =>
        \A f \in FragmentsOf(LastCommand) :
            Rank(analyzeCommand(f, LastDir).level) >= Rank("high") =>
                Rank(LastVerdict.level) >= Rank("high")

\* The malformed rules of the configuration.
MalformedRules ==
    {rule \in CommandRules \cup PathRules :
        /\ Malformed(rule)
        /\ \E list \in {rules.allowlist.commands, rules.allowlist.paths,
                        rules.blocklist.commands} :
              \E k \in 1..Len(list) : list[k] = rule}

\* C27: a `/body/flags` rule that does not compile matches neither the
\* command nor the directory classified, the call still returns a verdict of
\* one of the four levels, and the analyzer without the malformed rules
\* returns the same verdict for the same call.
C27_MalformedRuleIsInert ==
    Classified =>
        /\ \A rule \in MalformedRules :
              ~MatchPattern(LastCommand, rule) /\ ~MatchPattern(LastDir, rule)
        /\ LastVerdict.level \in {"low", "medium", "high", "critical"}
        /\ Len(analysis) = 2 => analysis[2].verdict = analysis[1].verdict

\* A command blocklisted by the rule behind a malformed one, classified with
\* and without the malformed rule.
C27_Witness ==
    /\ Len(analysis) = 2
    /\ LastVerdict.level = "critical"
    /\ LastVerdict.reasons[1][1] = "blocklisted"
    /\ rules.blocklist.commands # << >>

\* C28: a 'medium' invocation invokes the executor once, with exactly one
\* audit entry, the 'auto-allowed' decision, recorded by then and none added
\* after; a 'low' invocation invokes the executor with no audit entry;
\* neither opens a ledger request nor sends a notification.
C28_MediumLoggedLowDirect ==
    \A h \in Calls :
        /\ (calls[h].level = "medium" /\ calls[h].pc # "threw") =>
              /\ calls[h].execs = 1
              /\ calls[h].audit =
                    <<[kind |-> "decision", decision |-> "auto-allowed",
                       decided_by |-> "auto", risk_level |-> "medium"]>>
              /\ calls[h].req = 0 /\ calls[h].notif = "none" /\ calls[h].poll = "none"
        /\ calls[h].level = "low" =>
              /\ calls[h].execs = 1
              /\ calls[h].audit = << >>
              /\ calls[h].req = 0 /\ calls[h].notif = "none" /\ calls[h].poll = "none"

\* A 'medium' invocation whose command has run.
C28_Witness ==
    \E h \in Calls :
        /\ calls[h].level = "medium"
        /\ calls[h].pc = "done"
        /\ calls[h].result # << >>
        /\ Len(calls[h].audit) = 1

\* C29: an invocation that has invoked the executor and returned has an
\* audit record of the execution result.
C29_ExecutionIsRecorded ==
    \A h \in Calls :
        (calls[h].pc = "done" /\ calls[h].execs > 0) =>
            \E k \in 1..Len(calls[h].audit) : calls[h].audit[k].kind = "execution"

\* C30: a record call of the audit sink that throws does not fail the
\* invocation: no invocation ends with the sink's exception instead of the
\* result it returns when the record call succeeds.
C30_SinkFailureIsHarmless ==
    \A h \in Calls : calls[h].pc # "threw"

\* The outcomes delivered so far: the value each settled completion holds.
Delivered == {Outcome(r) : r \in {q \in 1..nreq : Settled(q)}}

\* C31 as stated: all non-approved outcomes delivered, by explicit
\* rejection or by timeout, have the same set of fields.
C31_SameOutcomeShape ==
    \A o1, o2 \in Delivered :
        (~o1.approved /\ ~o2.approved) => DOMAIN o1 = DOMAIN o2

\* C31 as amended: a non-approved outcome is either the timeout's, with the
\* fields approved, decidedBy and reason ('timeout'), or the rejection's,
\* with the fields approved and decidedBy only.
C31_TimeoutAddsReason ==
    \A o \in Delivered :
        ~o.approved =>
            IF o.decidedBy = "timeout"
            THEN DOMAIN o = {"approved", "decidedBy", "reason"} /\ o.reason = "timeout"
            ELSE DOMAIN o = {"approved", "decidedBy"} /\ o.decidedBy = "user"

\* One request rejected and another timed out.
C31_Witness ==
    \E r1, r2 \in 1..nreq :
        /\ Settled(r1) /\ Settled(r2)
        /\ entries[r1].status = "rejected" /\ Outcome(r1).decidedBy = "user"
        /\ entries[r2].status = "timeout" /\ Outcome(r2).decidedBy = "timeout"

\* C32: a pollForResponse call that has begun returns an outcome.
C32_PollAlwaysReturns ==
    (poller.pc # "idle") ~> (poller.pc = "returned" /\ poller.result # << >>)

\* The map a cleanup() call would leave in the current state.
Swept == [i \in Ids |-> IF store[i] # 0 /\ Expired(store[i]) THEN 0 ELSE store[i]]

\* C33: the state a cleanup() call leaves is one that a second cleanup()
\* call, made at once, does not change: the second call would evict nothing,
\* and a call writes nothing but the map.
C33_CleanupIdempotent ==
    [][\A byInterval \in BOOLEAN :
        Cleanup(byInterval) =>
            /\ Swept' = store'
            /\ UNCHANGED <<nreq, entries, promise, sweep, now>>]_vars

\* Both requests evicted by the sweep, which is still scheduled.
C33_Witness ==
    /\ nreq = 2
    /\ sweep
    /\ \A r \in 1..nreq : Expired(r) /\ store[entries[r].id] = 0

\* C34: an empty or whitespace-only command classifies 'low' under every
\* rule set and in every working directory.
C34_EmptyCommandIsLow ==
    Classified => (LastCommand = << >> => LastVerdict.level = "low")

\* C35: the reasons of a verdict form a set: no reason occurs twice in the
\* reasons of one verdict.
C35_ReasonsAreASet ==
    Classified =>
        \A j, k \in 1..Len(LastVerdict.reasons) :
            LastVerdict.reasons[j] = LastVerdict.reasons[k] => j = k

\* No two add() calls were given the same id.
DistinctIds ==
    \A r1, r2 \in 1..nreq : entries[r1].id = entries[r2].id => r1 = r2

\* C36: with distinct request ids, a stored request is 'pending' exactly when
\* its completion is not settled, 'approved' exactly when it was settled with
\* approved: true, and 'timeout' exactly when it was settled with decidedBy
\* 'timeout'.
C36_StatusMatchesCompletion ==
    DistinctIds =>
        \A i \in Ids :
            store[i] # 0 =>
                LET r == store[i] IN
                /\ entries[r].status = "pending" <=> ~Settled(r)
                /\ entries[r].status = "approved" <=> (Settled(r) /\ Outcome(r).approved)
                /\ entries[r].status = "timeout" <=>
                      (Settled(r) /\ Outcome(r).decidedBy = "timeout")

\* Two stored requests, one approved and one timed out.
C36_Witness ==
    /\ DistinctIds
    /\ \E i, j \in Ids :
          /\ store[i] # 0 /\ entries[store[i]].status = "approved"
          /\ store[j] # 0 /\ entries[store[j]].status = "timeout"

\* C37: approve(id), reject(id) and the timer of a request with that id
\* leave every request with another id as it was: its fields, status, timer
\* and completion, and its place in the map.
C37_OtherRequestsUntouched ==
    [][\A i \in Ids :
        (\/ Approve(i)
         \/ Reject(i)
         \/ \E r \in Reqs : entries[r].id = i /\ TimerFire(r)) =>
            /\ store' = store
            /\ \A q \in 1..nreq :
                  entries[q].id # i =>
                      entries'[q] = entries[q] /\ promise'[q] = promise[q]]_vars

\* One request decided while a request with another id is still pending,
\* unsettled and with its timer armed.
C37_Witness ==
    \E r1, r2 \in 1..nreq :
        /\ entries[r1].id # entries[r2].id
        /\ entries[r1].status \in Terminal /\ Settled(r1)
        /\ entries[r2].status = "pending" /\ ~Settled(r2)
        /\ entries[r2].timer = "armed"

\* C38: a timer created by add changes the status of an entry only when the
\* same step settles that entry's completion, also after an add that reused
\* an id whose earlier request was still pending.
C38_TimerSettlesWhatItMarks ==
    [][\A r \in Reqs :
        TimerFire(r) =>
            \A q \in 1..nreq :
                entries'[q].status # entries[q].status =>
                    (~Settled(q) /\ promise'[q] # << >>)]_vars

\* The verdicts and outcomes with which a call is to run its command.
ShouldExecute(c) ==
    \/ c.level \in {"low", "medium"}
    \/ c.level = "high" /\ c.decision # << >> /\ c.decision[1].approved

\* The decision entries among the audit entries of a call.
DecisionEntries(c) == {k \in 1..Len(c.audit) : c.audit[k].kind = "decision"}

\* C39: a call invokes the executor at most once and writes at most one
\* decision audit entry; a call that has ended has invoked the executor
\* exactly once if its verdict was low or medium, or high with an approved
\* outcome, and not at all otherwise.
C39_ExecutesExactlyOnce ==
    \A h \in Calls :
        /\ calls[h].execs <= 1
        /\ Cardinality(DecisionEntries(calls[h])) <= 1
        /\ calls[h].execs = 1 => ShouldExecute(calls[h])
        /\ (calls[h].pc \in {"done", "threw"} /\ ShouldExecute(calls[h])) =>
              calls[h].execs = 1

\* C40: a background poll that returns a non-approved result while its
\* request is pending makes the ledger status 'rejected' and settles the
\* completion with {approved: false, decidedBy: 'user'}; the outcome a call
\* observes has decidedBy 'user' or 'timeout', never the channel's value.
C40_PollRejectionIsByUser ==
    [][\A h \in Calls :
        /\ (/\ PollDeadline(h) \/ (PollReturn(h) /\ ~PollResult(calls[h].remote).approved)
            /\ IsPendingId(calls[h].id)) =>
              /\ entries'[calls[h].req].status = "rejected"
              /\ promise'[calls[h].req] = <<[approved |-> FALSE, decidedBy |-> "user"]>>
        /\ calls'[h].decision # << >> =>
              calls'[h].decision[1].decidedBy \in {"user", "timeout"}]_vars

\* The service reported the notification expired, the poll forwarded it, and
\* the call observed a rejection by the user.
C40_Witness ==
    \E h \in Calls :
        /\ calls[h].poll = "done"
        /\ calls[h].remote = "expired"
        /\ entries[calls[h].req].status = "rejected"
        /\ calls[h].decision = <<[approved |-> FALSE, decidedBy |-> "user"]>>

====
